---- MODULE Spec2Model ----
(***************************************************************************)
(* Model of the lucidata services:                                         *)
(*   llm_engine   - POST /process-query: schema fetch, prompt, model call, *)
(*                  marker-based parsing of the model's response           *)
(*   query_runner - POST /execute-query: run one SQL statement             *)
(* A text is a sequence of one-character strings, so that substring        *)
(* search, splitting and trimming are computed as Python computes them.    *)
(* An optional value (Python None or a value) is a sequence of length 0    *)
(* or 1.                                                                   *)
(***************************************************************************)
EXTENDS Integers, Sequences, FiniteSets, TLC

VARIABLES
    pc,         \* position of the handler being run
    db_url,     \* environment: DATABASE_URL is set
    llm_model,  \* environment: the value of LLM_MODEL (optional)
    catalog,    \* environment: the public tables of the database, in catalog order
    conn,       \* the connection of this call: "none", "open" or "closed"
    cursor,     \* the cursor of this call: "none", "open" or "closed"
    tables,     \* get_database_schema: rows of the table listing still to visit
    schema,     \* get_database_schema: the schema assembled so far
    db_schema,  \* process_query: the value get_database_schema returned (optional)
    request,    \* the request body
    prompt,     \* the prompt handed to the model (optional)
    llm_calls,  \* number of invocations of the language-model API in this request
    response,   \* the model's raw response text (optional)
    result,     \* the TranslationResult / ExecuteQueryResponse built (optional)
    raised,     \* the exceptions raised while handling the request, in order
    status,     \* HTTP status sent to the client (0 while the request is running)
    fields      \* round-trip harness: the (S, E, C) the response was formatted from

vars == <<pc, db_url, llm_model, catalog, conn, cursor, tables, schema, db_schema, request,
          prompt, llm_calls, response, result, raised, status, fields>>

----------------------------------------------------------------------------
(* Bounds of the model *)

\* number of pieces a model response is assembled from (parser harness)
MaxPieces == 4
\* number of pieces of a model response in the /process-query pipeline
MaxReplyPieces == 2
\* number of pieces of a field body in the round-trip harness
MaxFieldPieces == 2
\* number of public tables in the database catalog
MaxTables == 2
\* number of rows a statement returns
MaxRows == 2

----------------------------------------------------------------------------
(* Optional values *)

None == <<>>
Some(v) == <<v>>
IsSet(o) == o # <<>>
Get(o) == o[1]

----------------------------------------------------------------------------
(* Python str operations on texts *)

SQL_MARKER == <<"S", "Q", "L", ":">>
EXPLANATION_MARKER == <<"E", "X", "P", "L", "A", "N", "A", "T", "I", "O", "N", ":">>
CONFIDENCE_MARKER == <<"C", "O", "N", "F", "I", "D", "E", "N", "C", "E", ":">>

\* A character that a TLA+ string cannot hold (a code point above U+00FF) is
\* written as the one string "U+XXXX" naming it.

\* str.strip() with no argument removes the characters str.isspace() holds of:
\* U+0009..U+000D, U+001C..U+001F, U+0020, U+0085, U+00A0, U+1680,
\* U+2000..U+200A, U+2028, U+2029, U+202F, U+205F, U+3000
Whitespace ==
    {"\t", "\n", "", "\f", "\r", "", "", "", "", " ", "", " ",
     "U+1680", "U+2000", "U+2001", "U+2002", "U+2003", "U+2004", "U+2005",
     "U+2006", "U+2007", "U+2008", "U+2009", "U+200A", "U+2028", "U+2029",
     "U+202F", "U+205F", "U+3000"}

\* str.find: the least 1-based index where m occurs in s, 0 when it does not
Find(s, m) ==
    LET hits == {i \in 1..(Len(s) - Len(m) + 1) : SubSeq(s, i, i + Len(m) - 1) = m}
    IN IF hits = {} THEN 0 ELSE CHOOSE i \in hits : \A j \in hits : i <= j

\* `m in s`
Contains(m, s) == Find(s, m) # 0

\* s.split(m, 1)[0]: the text before the first m, the whole of s when m is absent
BeforeFirst(s, m) ==
    IF Find(s, m) = 0 THEN s ELSE SubSeq(s, 1, Find(s, m) - 1)

\* s.split(m, 1)[1]: the text after the first m (used only where m is in s)
AfterFirst(s, m) == SubSeq(s, Find(s, m) + Len(m), Len(s))

\* s without the characters of ws at its two ends
StripChars(s, ws) ==
    IF \A i \in 1..Len(s) : s[i] \in ws THEN <<>>
    ELSE SubSeq(s,
                CHOOSE i \in 1..Len(s) :
                    s[i] \notin ws /\ \A j \in 1..(i - 1) : s[j] \in ws,
                CHOOSE i \in 1..Len(s) :
                    s[i] \notin ws /\ \A j \in (i + 1)..Len(s) : s[j] \in ws)

\* s.strip()
Strip(s) == StripChars(s, Whitespace)

----------------------------------------------------------------------------
(* Python float(str): the text is read as a decimal numeral and rounded to   *)
(* the nearest IEEE 754 double, ties to even.                               *)

\* float() ignores white space around the numeral, but not the separators
\* U+001C..U+001F that str.strip() removes
FloatWhitespace == Whitespace \ {"", "", "", ""}

\* the decimal digits float() reads (Unicode category Nd), each block in the
\* order of the values 0..9
DigitBlocks ==
    <<
      <<"0", "1", "2", "3", "4", "5", "6", "7", "8", "9">>,
      <<"U+0660", "U+0661", "U+0662", "U+0663", "U+0664", "U+0665", "U+0666", "U+0667", "U+0668", "U+0669">>,
      <<"U+06F0", "U+06F1", "U+06F2", "U+06F3", "U+06F4", "U+06F5", "U+06F6", "U+06F7", "U+06F8", "U+06F9">>,
      <<"U+07C0", "U+07C1", "U+07C2", "U+07C3", "U+07C4", "U+07C5", "U+07C6", "U+07C7", "U+07C8", "U+07C9">>,
      <<"U+0966", "U+0967", "U+0968", "U+0969", "U+096A", "U+096B", "U+096C", "U+096D", "U+096E", "U+096F">>,
      <<"U+09E6", "U+09E7", "U+09E8", "U+09E9", "U+09EA", "U+09EB", "U+09EC", "U+09ED", "U+09EE", "U+09EF">>,
      <<"U+0A66", "U+0A67", "U+0A68", "U+0A69", "U+0A6A", "U+0A6B", "U+0A6C", "U+0A6D", "U+0A6E", "U+0A6F">>,
      <<"U+0AE6", "U+0AE7", "U+0AE8", "U+0AE9", "U+0AEA", "U+0AEB", "U+0AEC", "U+0AED", "U+0AEE", "U+0AEF">>,
      <<"U+0B66", "U+0B67", "U+0B68", "U+0B69", "U+0B6A", "U+0B6B", "U+0B6C", "U+0B6D", "U+0B6E", "U+0B6F">>,
      <<"U+0BE6", "U+0BE7", "U+0BE8", "U+0BE9", "U+0BEA", "U+0BEB", "U+0BEC", "U+0BED", "U+0BEE", "U+0BEF">>,
      <<"U+0C66", "U+0C67", "U+0C68", "U+0C69", "U+0C6A", "U+0C6B", "U+0C6C", "U+0C6D", "U+0C6E", "U+0C6F">>,
      <<"U+0CE6", "U+0CE7", "U+0CE8", "U+0CE9", "U+0CEA", "U+0CEB", "U+0CEC", "U+0CED", "U+0CEE", "U+0CEF">>,
      <<"U+0D66", "U+0D67", "U+0D68", "U+0D69", "U+0D6A", "U+0D6B", "U+0D6C", "U+0D6D", "U+0D6E", "U+0D6F">>,
      <<"U+0DE6", "U+0DE7", "U+0DE8", "U+0DE9", "U+0DEA", "U+0DEB", "U+0DEC", "U+0DED", "U+0DEE", "U+0DEF">>,
      <<"U+0E50", "U+0E51", "U+0E52", "U+0E53", "U+0E54", "U+0E55", "U+0E56", "U+0E57", "U+0E58", "U+0E59">>,
      <<"U+0ED0", "U+0ED1", "U+0ED2", "U+0ED3", "U+0ED4", "U+0ED5", "U+0ED6", "U+0ED7", "U+0ED8", "U+0ED9">>,
      <<"U+0F20", "U+0F21", "U+0F22", "U+0F23", "U+0F24", "U+0F25", "U+0F26", "U+0F27", "U+0F28", "U+0F29">>,
      <<"U+1040", "U+1041", "U+1042", "U+1043", "U+1044", "U+1045", "U+1046", "U+1047", "U+1048", "U+1049">>,
      <<"U+1090", "U+1091", "U+1092", "U+1093", "U+1094", "U+1095", "U+1096", "U+1097", "U+1098", "U+1099">>,
      <<"U+17E0", "U+17E1", "U+17E2", "U+17E3", "U+17E4", "U+17E5", "U+17E6", "U+17E7", "U+17E8", "U+17E9">>,
      <<"U+1810", "U+1811", "U+1812", "U+1813", "U+1814", "U+1815", "U+1816", "U+1817", "U+1818", "U+1819">>,
      <<"U+1946", "U+1947", "U+1948", "U+1949", "U+194A", "U+194B", "U+194C", "U+194D", "U+194E", "U+194F">>,
      <<"U+19D0", "U+19D1", "U+19D2", "U+19D3", "U+19D4", "U+19D5", "U+19D6", "U+19D7", "U+19D8", "U+19D9">>,
      <<"U+1A80", "U+1A81", "U+1A82", "U+1A83", "U+1A84", "U+1A85", "U+1A86", "U+1A87", "U+1A88", "U+1A89">>,
      <<"U+1A90", "U+1A91", "U+1A92", "U+1A93", "U+1A94", "U+1A95", "U+1A96", "U+1A97", "U+1A98", "U+1A99">>,
      <<"U+1B50", "U+1B51", "U+1B52", "U+1B53", "U+1B54", "U+1B55", "U+1B56", "U+1B57", "U+1B58", "U+1B59">>,
      <<"U+1BB0", "U+1BB1", "U+1BB2", "U+1BB3", "U+1BB4", "U+1BB5", "U+1BB6", "U+1BB7", "U+1BB8", "U+1BB9">>,
      <<"U+1C40", "U+1C41", "U+1C42", "U+1C43", "U+1C44", "U+1C45", "U+1C46", "U+1C47", "U+1C48", "U+1C49">>,
      <<"U+1C50", "U+1C51", "U+1C52", "U+1C53", "U+1C54", "U+1C55", "U+1C56", "U+1C57", "U+1C58", "U+1C59">>,
      <<"U+A620", "U+A621", "U+A622", "U+A623", "U+A624", "U+A625", "U+A626", "U+A627", "U+A628", "U+A629">>,
      <<"U+A8D0", "U+A8D1", "U+A8D2", "U+A8D3", "U+A8D4", "U+A8D5", "U+A8D6", "U+A8D7", "U+A8D8", "U+A8D9">>,
      <<"U+A900", "U+A901", "U+A902", "U+A903", "U+A904", "U+A905", "U+A906", "U+A907", "U+A908", "U+A909">>,
      <<"U+A9D0", "U+A9D1", "U+A9D2", "U+A9D3", "U+A9D4", "U+A9D5", "U+A9D6", "U+A9D7", "U+A9D8", "U+A9D9">>,
      <<"U+A9F0", "U+A9F1", "U+A9F2", "U+A9F3", "U+A9F4", "U+A9F5", "U+A9F6", "U+A9F7", "U+A9F8", "U+A9F9">>,
      <<"U+AA50", "U+AA51", "U+AA52", "U+AA53", "U+AA54", "U+AA55", "U+AA56", "U+AA57", "U+AA58", "U+AA59">>,
      <<"U+ABF0", "U+ABF1", "U+ABF2", "U+ABF3", "U+ABF4", "U+ABF5", "U+ABF6", "U+ABF7", "U+ABF8", "U+ABF9">>,
      <<"U+FF10", "U+FF11", "U+FF12", "U+FF13", "U+FF14", "U+FF15", "U+FF16", "U+FF17", "U+FF18", "U+FF19">>,
      <<"U+104A0", "U+104A1", "U+104A2", "U+104A3", "U+104A4", "U+104A5", "U+104A6", "U+104A7", "U+104A8", "U+104A9">>,
      <<"U+10D30", "U+10D31", "U+10D32", "U+10D33", "U+10D34", "U+10D35", "U+10D36", "U+10D37", "U+10D38", "U+10D39">>,
      <<"U+11066", "U+11067", "U+11068", "U+11069", "U+1106A", "U+1106B", "U+1106C", "U+1106D", "U+1106E", "U+1106F">>,
      <<"U+110F0", "U+110F1", "U+110F2", "U+110F3", "U+110F4", "U+110F5", "U+110F6", "U+110F7", "U+110F8", "U+110F9">>,
      <<"U+11136", "U+11137", "U+11138", "U+11139", "U+1113A", "U+1113B", "U+1113C", "U+1113D", "U+1113E", "U+1113F">>,
      <<"U+111D0", "U+111D1", "U+111D2", "U+111D3", "U+111D4", "U+111D5", "U+111D6", "U+111D7", "U+111D8", "U+111D9">>,
      <<"U+112F0", "U+112F1", "U+112F2", "U+112F3", "U+112F4", "U+112F5", "U+112F6", "U+112F7", "U+112F8", "U+112F9">>,
      <<"U+11450", "U+11451", "U+11452", "U+11453", "U+11454", "U+11455", "U+11456", "U+11457", "U+11458", "U+11459">>,
      <<"U+114D0", "U+114D1", "U+114D2", "U+114D3", "U+114D4", "U+114D5", "U+114D6", "U+114D7", "U+114D8", "U+114D9">>,
      <<"U+11650", "U+11651", "U+11652", "U+11653", "U+11654", "U+11655", "U+11656", "U+11657", "U+11658", "U+11659">>,
      <<"U+116C0", "U+116C1", "U+116C2", "U+116C3", "U+116C4", "U+116C5", "U+116C6", "U+116C7", "U+116C8", "U+116C9">>,
      <<"U+11730", "U+11731", "U+11732", "U+11733", "U+11734", "U+11735", "U+11736", "U+11737", "U+11738", "U+11739">>,
      <<"U+118E0", "U+118E1", "U+118E2", "U+118E3", "U+118E4", "U+118E5", "U+118E6", "U+118E7", "U+118E8", "U+118E9">>,
      <<"U+11950", "U+11951", "U+11952", "U+11953", "U+11954", "U+11955", "U+11956", "U+11957", "U+11958", "U+11959">>,
      <<"U+11C50", "U+11C51", "U+11C52", "U+11C53", "U+11C54", "U+11C55", "U+11C56", "U+11C57", "U+11C58", "U+11C59">>,
      <<"U+11D50", "U+11D51", "U+11D52", "U+11D53", "U+11D54", "U+11D55", "U+11D56", "U+11D57", "U+11D58", "U+11D59">>,
      <<"U+11DA0", "U+11DA1", "U+11DA2", "U+11DA3", "U+11DA4", "U+11DA5", "U+11DA6", "U+11DA7", "U+11DA8", "U+11DA9">>,
      <<"U+16A60", "U+16A61", "U+16A62", "U+16A63", "U+16A64", "U+16A65", "U+16A66", "U+16A67", "U+16A68", "U+16A69">>,
      <<"U+16AC0", "U+16AC1", "U+16AC2", "U+16AC3", "U+16AC4", "U+16AC5", "U+16AC6", "U+16AC7", "U+16AC8", "U+16AC9">>,
      <<"U+16B50", "U+16B51", "U+16B52", "U+16B53", "U+16B54", "U+16B55", "U+16B56", "U+16B57", "U+16B58", "U+16B59">>,
      <<"U+1D7CE", "U+1D7CF", "U+1D7D0", "U+1D7D1", "U+1D7D2", "U+1D7D3", "U+1D7D4", "U+1D7D5", "U+1D7D6", "U+1D7D7">>,
      <<"U+1D7D8", "U+1D7D9", "U+1D7DA", "U+1D7DB", "U+1D7DC", "U+1D7DD", "U+1D7DE", "U+1D7DF", "U+1D7E0", "U+1D7E1">>,
      <<"U+1D7E2", "U+1D7E3", "U+1D7E4", "U+1D7E5", "U+1D7E6", "U+1D7E7", "U+1D7E8", "U+1D7E9", "U+1D7EA", "U+1D7EB">>,
      <<"U+1D7EC", "U+1D7ED", "U+1D7EE", "U+1D7EF", "U+1D7F0", "U+1D7F1", "U+1D7F2", "U+1D7F3", "U+1D7F4", "U+1D7F5">>,
      <<"U+1D7F6", "U+1D7F7", "U+1D7F8", "U+1D7F9", "U+1D7FA", "U+1D7FB", "U+1D7FC", "U+1D7FD", "U+1D7FE", "U+1D7FF">>,
      <<"U+1E140", "U+1E141", "U+1E142", "U+1E143", "U+1E144", "U+1E145", "U+1E146", "U+1E147", "U+1E148", "U+1E149">>,
      <<"U+1E2F0", "U+1E2F1", "U+1E2F2", "U+1E2F3", "U+1E2F4", "U+1E2F5", "U+1E2F6", "U+1E2F7", "U+1E2F8", "U+1E2F9">>,
      <<"U+1E950", "U+1E951", "U+1E952", "U+1E953", "U+1E954", "U+1E955", "U+1E956", "U+1E957", "U+1E958", "U+1E959">>,
      <<"U+1FBF0", "U+1FBF1", "U+1FBF2", "U+1FBF3", "U+1FBF4", "U+1FBF5", "U+1FBF6", "U+1FBF7", "U+1FBF8", "U+1FBF9">>
    >>

Digits == UNION {{DigitBlocks[b][i] : i \in 1..10} : b \in 1..Len(DigitBlocks)}

DigitValue(c) ==
    LET b == CHOOSE b \in 1..Len(DigitBlocks) : \E i \in 1..10 : DigitBlocks[b][i] = c
    IN (CHOOSE i \in 1..10 : DigitBlocks[b][i] = c) - 1

\* float() reads inf, infinity and nan in any letter case
Lower(c) ==
    CASE c = "I" -> "i" [] c = "N" -> "n" [] c = "F" -> "f" [] c = "T" -> "t"
      [] c = "Y" -> "y" [] c = "A" -> "a" [] c = "E" -> "e" [] OTHER -> c

LowerText(s) == [i \in 1..Len(s) |-> Lower(s[i])]

\* a run of digits, single underscores allowed between two digits
IsDigitRun(s) ==
    /\ Len(s) > 0
    /\ \A i \in 1..Len(s) : s[i] \in Digits \cup {"_"}
    /\ \A i \in 1..Len(s) :
         s[i] = "_" => /\ i > 1 /\ i < Len(s)
                       /\ s[i - 1] \in Digits /\ s[i + 1] \in Digits

\* the values of the digits of a run, underscores skipped, leading zeros dropped
DigitValues(s) ==
    LET ds == SelectSeq(s, LAMBDA c : c \in Digits)
        vs == [k \in 1..Len(ds) |-> DigitValue(ds[k])]
    IN IF \A k \in 1..Len(vs) : vs[k] = 0 THEN <<>>
       ELSE SubSeq(vs, CHOOSE k \in 1..Len(vs) :
                           vs[k] # 0 /\ \A j \in 1..(k - 1) : vs[j] = 0,
                   Len(vs))

\* digit values without the zeros at their end
WithoutTrailingZeros(vs) ==
    IF \A k \in 1..Len(vs) : vs[k] = 0 THEN <<>>
    ELSE SubSeq(vs, 1, CHOOSE k \in 1..Len(vs) :
                           vs[k] # 0 /\ \A j \in (k + 1)..Len(vs) : vs[j] = 0)

\* the machine integer at most six digit values denote
SmallInt(ds) ==
    LET d == [i \in 1..(6 - Len(ds)) |-> 0] \o ds
    IN d[1] * 100000 + d[2] * 10000 + d[3] * 1000 + d[4] * 100 + d[5] * 10 + d[6]

CountDigits(s) == Len(SelectSeq(s, LAMBDA c : c \in Digits))

\* Natural numbers of any size: limbs in base 2^15, the least significant
\* first, no zero limb at the top.
LimbBase == 2^15

\* a without the zero limbs at its top
Trim(a) ==
    IF \A i \in 1..Len(a) : a[i] = 0 THEN <<>>
    ELSE SubSeq(a, 1, CHOOSE i \in 1..Len(a) :
                        a[i] # 0 /\ \A j \in (i + 1)..Len(a) : a[j] = 0)

\* a with zero limbs on top, n limbs in all
Pad(a, n) == a \o [i \in 1..(n - Len(a)) |-> 0]

\* a + b: limb i takes a carry when, of the limbs below it whose sum is not
\* 2^15 - 1 (those pass a carry on), the nearest one overflows
Add(a, b) ==
    LET n == 1 + (IF Len(a) > Len(b) THEN Len(a) ELSE Len(b))
        x == Pad(a, n)
        y == Pad(b, n)
        passes(j) == x[j] + y[j] = LimbBase - 1
        carry(i) ==
            LET d == CHOOSE d \in 1..i :
                         /\ d = i \/ ~passes(i - d)
                         /\ \A k \in 1..(d - 1) : passes(i - k)
            IN IF d < i /\ x[i - d] + y[i - d] >= LimbBase THEN 1 ELSE 0
    IN Trim([i \in 1..n |-> (x[i] + y[i] + carry(i)) % LimbBase])

\* a - b, for a >= b: limb i lends when, of the limbs below it that differ,
\* the nearest one is short
Sub(a, b) ==
    LET y == Pad(b, Len(a))
        borrow(i) ==
            LET d == CHOOSE d \in 1..i :
                         /\ d = i \/ a[i - d] # y[i - d]
                         /\ \A k \in 1..(d - 1) : a[i - k] = y[i - k]
            IN IF d < i /\ a[i - d] < y[i - d] THEN 1 ELSE 0
    IN Trim([i \in 1..Len(a) |-> (a[i] - y[i] - borrow(i) + LimbBase) % LimbBase])

\* a * m + c, for m and c below 2^15: the low halves of the limb products,
\* plus their high halves one limb up, plus c
MulAdd(a, m, c) ==
    Add(Add([i \in 1..Len(a) |-> (a[i] * m) % LimbBase],
            <<0>> \o [i \in 1..Len(a) |-> (a[i] * m) \div LimbBase]),
        Trim(<<c>>))

RECURSIVE TimesPow10(_, _)
\* a * 10^k
TimesPow10(a, k) ==
    IF a = <<>> THEN <<>>
    ELSE IF k <= 4 THEN MulAdd(a, 10^k, 0)
    ELSE TimesPow10(TimesPow10(a, k \div 2), k - k \div 2)

RECURSIVE FromDigits(_)
\* the number a sequence of digit values denotes
FromDigits(ds) ==
    IF Len(ds) <= 4 THEN Trim(<<SmallInt(ds)>>)
    ELSE LET h == Len(ds) \div 2
         IN Add(TimesPow10(FromDigits(SubSeq(ds, 1, Len(ds) - h)), h),
                FromDigits(SubSeq(ds, Len(ds) - h + 1, Len(ds))))

BitLen(a) ==
    IF a = <<>> THEN 0
    ELSE 15 * (Len(a) - 1)
           + (CHOOSE k \in 1..15 : 2^(k - 1) <= a[Len(a)] /\ a[Len(a)] < 2^k)

\* a * 2^n
ShiftLeft(a, n) ==
    IF a = <<>> THEN <<>>
    ELSE [i \in 1..(n \div 15) |-> 0] \o MulAdd(a, 2^(n % 15), 0)

\* a >= b
Geq(a, b) ==
    IF Len(a) # Len(b) THEN Len(a) > Len(b)
    ELSE \/ a = b
         \/ LET top == CHOOSE i \in 1..Len(a) :
                           a[i] # b[i] /\ \A j \in (i + 1)..Len(a) : a[j] = b[j]
            IN a[top] > b[top]

RECURSIVE QuotientBits(_, _, _)
\* for r < 2d: the bits b0.b1b2... of r / d, n of them, and 2^n times what
\* is left of r after them
QuotientBits(r, d, n) ==
    IF n = 0 THEN [bits |-> <<>>, rem |-> r]
    ELSE IF n = 1
    THEN [bits |-> <<IF Geq(r, d) THEN 1 ELSE 0>>,
          rem |-> MulAdd(IF Geq(r, d) THEN Sub(r, d) ELSE r, 2, 0)]
    ELSE LET lo == QuotientBits(r, d, n \div 2)
             hi == QuotientBits(lo.rem, d, n - n \div 2)
         IN [bits |-> lo.bits \o hi.bits, rem |-> hi.rem]

RECURSIVE SmallQuotientBits(_, _, _)
\* the same for r and d that are machine integers below 2^30
SmallQuotientBits(r, d, n) ==
    IF n = 0 THEN [bits |-> <<>>, rem |-> r]
    ELSE IF n = 1
    THEN [bits |-> <<IF r >= d THEN 1 ELSE 0>>,
          rem |-> 2 * (IF r >= d THEN r - d ELSE r)]
    ELSE LET lo == SmallQuotientBits(r, d, n \div 2)
             hi == SmallQuotientBits(lo.rem, d, n - n \div 2)
         IN [bits |-> lo.bits \o hi.bits, rem |-> hi.rem]

\* the machine integer a number of at most two limbs is
SmallValue(a) == Pad(a, 2)[1] + LimbBase * Pad(a, 2)[2]

\* the number a machine integer n >= 0 is
Big(n) == Trim(<<n % LimbBase, (n \div LimbBase) % LimbBase, n \div (LimbBase * LimbBase)>>)

\* the bits of q, and whether nothing is left after them
Exactness(q, nothing) == [bits |-> q.bits, exact |-> q.rem = nothing]

\* for r < 2d: n bits of r / d, and whether r / d is those bits exactly
Quotient(r, d, n) ==
    IF Len(r) <= 2 /\ Len(d) <= 2
    THEN Exactness(SmallQuotientBits(SmallValue(r), SmallValue(d), n), 0)
    ELSE Exactness(QuotientBits(r, d, n), <<>>)

\* A float value: NaN, an infinity, or (-1)^neg * mant * 2^exp with mant a
\* binary numeral (most significant bit first) that begins and ends with 1,
\* empty for zero. Every double has exactly one such form.
NaN == [kind |-> "nan", neg |-> FALSE, mant |-> <<>>, exp |-> 0]
Infinity(neg) == [kind |-> "inf", neg |-> neg, mant |-> <<>>, exp |-> 0]
Zero(neg) == [kind |-> "num", neg |-> neg, mant |-> <<>>, exp |-> 0]

\* bits * 2^e, leading and trailing zero bits removed; past the largest double
\* it is an infinity
Canonical(neg, bits, e) ==
    LET n == Len(bits)
        lo == CHOOSE i \in 1..n : bits[i] = 1 /\ \A j \in 1..(i - 1) : bits[j] = 0
        hi == CHOOSE i \in 1..n : bits[i] = 1 /\ \A j \in (i + 1)..n : bits[j] = 0
    IN IF \A i \in 1..n : bits[i] = 0 THEN Zero(neg)
       ELSE IF (hi - lo + 1) + (e + n - hi) > 1024 THEN Infinity(neg)
       ELSE [kind |-> "num", neg |-> neg, mant |-> SubSeq(bits, lo, hi),
             exp |-> e + n - hi]

\* bits + 1
Increment(bits) ==
    LET n == Len(bits)
        k == CHOOSE i \in 1..n : bits[i] = 0 /\ \A j \in (i + 1)..n : bits[j] = 1
    IN IF \A i \in 1..n : bits[i] = 1 THEN <<1>> \o [i \in 1..n |-> 0]
       ELSE [i \in 1..n |-> IF i < k THEN bits[i] ELSE IF i = k THEN 1 ELSE 0]

\* the double nearest to q * 2^t, for q the 56 bits b0.b1b2... of a number in
\* [1/2, 2) and whether they are all of it; ties to even: 53 bits from the
\* leading one, fewer below 2^-1022 where the doubles are 2^-1074 apart
RoundBits(neg, q, t) ==
    LET lead == IF Head(q.bits) = 1 THEN 1 ELSE 2
        e == t - (lead - 1)
        nkeep == IF e >= -1022 THEN 53 ELSE e + 1075
        kept == SubSeq(q.bits, lead, lead + nkeep - 1)
        more == ~q.exact \/ \E i \in (lead + nkeep + 1)..56 : q.bits[i] = 1
        up == /\ q.bits[lead + nkeep] = 1
              /\ more \/ (nkeep > 0 /\ kept[nkeep] = 1)
    IN IF nkeep < 0 THEN Zero(neg)
       ELSE Canonical(neg, IF up THEN Increment(kept) ELSE kept, e - nkeep + 1)

\* the double nearest to a / b (a, b > 0): the smaller of the two is shifted
\* to the bit length of the other, which brings the quotient into [1/2, 2)
RoundToDouble(neg, a, b) ==
    LET t == BitLen(a) - BitLen(b)
    IN RoundBits(neg,
                 Quotient(IF t < 0 THEN ShiftLeft(a, 0 - t) ELSE a,
                          IF t > 0 THEN ShiftLeft(b, t) ELSE b, 56),
                 t)

\* the double nearest to ds * 10^e10, for ds a sequence of digit values
ScaledToDouble(neg, ds, e10) ==
    RoundToDouble(neg,
                  TimesPow10(FromDigits(ds), IF e10 > 0 THEN e10 ELSE 0),
                  TimesPow10(<<1>>, IF e10 < 0 THEN 0 - e10 ELSE 0))

\* the double nearest to 0.ds * 10^(up - down), for ds a sequence of digit
\* values that neither begins nor ends with 0 and up, down numbers of any
\* size; from 10^311 on it is an infinity, below 10^-331 a zero
DecimalToDouble(neg, ds, up, down) ==
    IF ds = <<>> THEN Zero(neg)
    ELSE IF Geq(up, down)
    THEN LET p == Sub(up, down)
         IN IF Len(p) > 1 \/ SmallValue(p) > 311 THEN Infinity(neg)
            ELSE ScaledToDouble(neg, ds, SmallValue(p) - Len(ds))
    ELSE LET p == Sub(down, up)
         IN IF Len(p) > 1 \/ SmallValue(p) > 330 THEN Zero(neg)
            ELSE ScaledToDouble(neg, ds, 0 - SmallValue(p) - Len(ds))

\* float() reads at most 10^9 digits, leading zeros apart, and at most 10^9
\* after the point
MAX_DIGITS == 1000000000

\* an exponent of more than nine digits is read as 1.1 * 10^9
MAX_ABS_EXP == 1100000000

\* the exponent the digit values ds (leading zeros dropped) denote
ExponentValue(ds) == IF Len(ds) > 9 THEN Big(MAX_ABS_EXP) ELSE FromDigits(ds)

\* the float a decimal numeral denotes: whole and frac are the digit runs
\* around the point (frac empty without one), expo what follows the e
\* (hasExp tells whether there is one); None when it is not a numeral
FloatOfDecimal(neg, whole, frac, dotted, hasExp, expo) ==
    LET expSigned == expo # <<>> /\ expo[1] \in {"+", "-"}
        expNeg == expSigned /\ expo[1] = "-"
        expDigits == IF expSigned THEN Tail(expo) ELSE expo
        expVal == IF hasExp THEN ExponentValue(DigitValues(expDigits)) ELSE <<>>
        sig == DigitValues(whole \o frac)
        mantOk == IF dotted
                  THEN /\ whole = <<>> \/ IsDigitRun(whole)
                       /\ frac = <<>> \/ IsDigitRun(frac)
                       /\ whole # <<>> \/ frac # <<>>
                  ELSE IsDigitRun(whole)
    IN IF /\ mantOk /\ (~hasExp \/ IsDigitRun(expDigits))
          /\ Len(sig) <= MAX_DIGITS /\ CountDigits(frac) <= MAX_DIGITS
       THEN Some(DecimalToDouble(
                     neg, WithoutTrailingZeros(sig),
                     Add(Big(Len(sig)), IF expNeg THEN <<>> ELSE expVal),
                     Add(Big(CountDigits(frac)), IF expNeg THEN expVal ELSE <<>>)))
       ELSE None

\* the float an unsigned numeral in lower case denotes
FloatOfUnsigned(neg, body) ==
    IF body = <<"n", "a", "n">> THEN Some(NaN)
    ELSE IF body \in {<<"i", "n", "f">>,
                      <<"i", "n", "f", "i", "n", "i", "t", "y">>}
    THEN Some(Infinity(neg))
    ELSE LET ePos == Find(body, <<"e">>)
             mant == IF ePos = 0 THEN body ELSE SubSeq(body, 1, ePos - 1)
             dot == Find(mant, <<".">>)
         IN FloatOfDecimal(neg,
                           IF dot = 0 THEN mant ELSE SubSeq(mant, 1, dot - 1),
                           IF dot = 0 THEN <<>> ELSE SubSeq(mant, dot + 1, Len(mant)),
                           dot # 0,
                           ePos # 0,
                           IF ePos = 0 THEN <<>> ELSE SubSeq(body, ePos + 1, Len(body)))

\* float(text): Some(value), or None for ValueError
ParseFloat(text) ==
    LET s == StripChars(text, FloatWhitespace)
        signed == s # <<>> /\ s[1] \in {"+", "-"}
    IN FloatOfUnsigned(signed /\ s[1] = "-", LowerText(IF signed THEN Tail(s) ELSE s))

----------------------------------------------------------------------------
(* llm_processor.parse_llm_response *)

\* the fallback query of line 134
FALLBACK_SQL ==
    <<"S", "E", "L", "E", "C", "T", " ", "*", " ", "F", "R", "O", "M", " ",
      "c", "a", "r", "s", " ", "L", "I", "M", "I", "T", " ", "1", "0", ";">>

\* confidence = 0.0 (line 112)
CONFIDENCE_ABSENT == [kind |-> "num", neg |-> FALSE, mant |-> <<>>, exp |-> 0]
\* confidence = 0.5 (line 130)
CONFIDENCE_UNPARSEABLE == [kind |-> "num", neg |-> FALSE, mant |-> <<1>>, exp |-> -1]

\* a mutant: the whole response is taken as the SQL when the marker is absent
ExtractSql_WholeText(resp) ==
    IF Contains(SQL_MARKER, resp)
    THEN Some(Strip(BeforeFirst(AfterFirst(resp, SQL_MARKER), EXPLANATION_MARKER)))
    ELSE Some(Strip(resp))

\* a mutant: the SQL is not cut at the EXPLANATION: marker
ExtractSql_NoCut(resp) ==
    IF Contains(SQL_MARKER, resp)
    THEN Some(Strip(AfterFirst(resp, SQL_MARKER)))
    ELSE None

\* lines 110, 115-117: sql, None when the marker is absent
ExtractSql(resp) ==
    IF Contains(SQL_MARKER, resp)
    THEN Some(Strip(BeforeFirst(AfterFirst(resp, SQL_MARKER), EXPLANATION_MARKER)))
    ELSE None

\* a mutant: the explanation is searched only after the SQL marker
ExtractExplanation_Remainder(resp) ==
    LET rest == IF Contains(SQL_MARKER, resp) THEN AfterFirst(resp, SQL_MARKER)
                ELSE resp
    IN IF Contains(EXPLANATION_MARKER, rest)
       THEN Some(Strip(BeforeFirst(AfterFirst(rest, EXPLANATION_MARKER),
                                   CONFIDENCE_MARKER)))
       ELSE None

\* lines 111, 120-122: explanation, None when the marker is absent
ExtractExplanation(resp) ==
    IF Contains(EXPLANATION_MARKER, resp)
    THEN Some(Strip(BeforeFirst(AfterFirst(resp, EXPLANATION_MARKER),
                                CONFIDENCE_MARKER)))
    ELSE None

\* a mutant: the two defaults are swapped
ExtractConfidence_Swapped(resp) ==
    IF Contains(CONFIDENCE_MARKER, resp)
    THEN LET parsed == ParseFloat(Strip(AfterFirst(resp, CONFIDENCE_MARKER)))
         IN IF IsSet(parsed) THEN Get(parsed) ELSE CONFIDENCE_ABSENT
    ELSE CONFIDENCE_UNPARSEABLE

\* lines 112, 125-130: confidence
ExtractConfidence(resp) ==
    IF Contains(CONFIDENCE_MARKER, resp)
    THEN LET parsed == ParseFloat(Strip(AfterFirst(resp, CONFIDENCE_MARKER)))
         IN IF IsSet(parsed) THEN Get(parsed) ELSE CONFIDENCE_UNPARSEABLE
    ELSE CONFIDENCE_ABSENT

\* a mutant: `if sql is None` in place of `if not sql`
SqlOrFallback_NoneOnly(sql) ==
    IF ~IsSet(sql) THEN FALLBACK_SQL ELSE Get(sql)

\* lines 132-134: `if not sql` is true of None and of the empty string
SqlOrFallback(sql) ==
    IF ~IsSet(sql) \/ Get(sql) = <<>> THEN FALLBACK_SQL ELSE Get(sql)

\* lines 108-136: the tuple (sql, explanation, confidence)
parse_llm_response(resp) ==
    [sql_query |-> SqlOrFallback(ExtractSql(resp)),
     explanation |-> ExtractExplanation(resp),
     confidence |-> ExtractConfidence(resp)]

----------------------------------------------------------------------------
(* db_schema.py *)

Column(name, type, nullable) == [name |-> name, type |-> type, nullable |-> nullable]

\* lines 62-85: one table, cars, with its 13 columns
get_hardcoded_schema ==
    <<[name |-> "cars",
       columns |-> <<Column("id", "integer", FALSE),
                     Column("model", "varchar(50)", FALSE),
                     Column("mpg", "numeric(5,1)", TRUE),
                     Column("cyl", "integer", TRUE),
                     Column("disp", "numeric(6,1)", TRUE),
                     Column("hp", "integer", TRUE),
                     Column("drat", "numeric(4,2)", TRUE),
                     Column("wt", "numeric(5,3)", TRUE),
                     Column("qsec", "numeric(5,2)", TRUE),
                     Column("vs", "integer", TRUE),
                     Column("am", "integer", TRUE),
                     Column("gear", "integer", TRUE),
                     Column("carb", "integer", TRUE)>>]>>

\* the tables a database may hold
TableNames == {"cars", "owners", "trips"}

\* the rows (column_name, data_type, is_nullable) information_schema.columns
\* holds for a table
CatalogColumns(t) ==
    CASE t = "cars" -> <<<<"id", "integer", "NO">>, <<"hp", "integer", "YES">>>>
      [] t = "owners" -> <<<<"name", "text", "YES">>>>
      [] t = "trips" -> <<>>

\* lines 44-48: one row of the column query as a column descriptor
ColumnDescriptor(row) == Column(row[1], row[2], row[3] = "YES")

\* lines 42-52: the entry schema[table_name]
TableEntry(t) ==
    [name |-> t,
     columns |-> [i \in 1..Len(CatalogColumns(t)) |-> ColumnDescriptor(CatalogColumns(t)[i])]]

\* a mutant: the tables read before the failure are returned
SchemaOnError_Partial(partial) == partial

\* lines 57-60: what the except clause returns, given the schema assembled so far
SchemaOnError(partial) == get_hardcoded_schema

\* lines 57-60: the except clause leaves the connection as it is
ConnAfterError(c) == c

----------------------------------------------------------------------------
(* llm_processor.py: prompt and model call *)

\* line 30: the default of os.getenv("LLM_MODEL", "gpt-4")
DEFAULT_MODEL == "gpt-4"

\* os.getenv(name, default), for env the value of the variable when it is set
Getenv(env, default) == IF IsSet(env) THEN Get(env) ELSE default

\* line 30: `model or os.getenv("LLM_MODEL", "gpt-4")`; for a model that is
\* None or "" the environment is read
ModelName(model, env) ==
    IF ~IsSet(model) \/ Get(model) = "" THEN Getenv(env, DEFAULT_MODEL)
    ELSE Get(model)

\* lines 94-106: one entry per table, in the order of the schema; the text
\* "No schema available." for an empty schema
format_schema_for_prompt(s) ==
    IF s = <<>> THEN <<"No schema available.">>
    ELSE [i \in 1..Len(s) |->
            [table |-> s[i].name,
             columns |-> [j \in 1..Len(s[i].columns) |->
                            <<s[i].columns[j].name, s[i].columns[j].type>>]]]

\* lines 71-92: the schema text and the question, inside the fixed template
generate_prompt(query, s) ==
    [schema_str |-> format_schema_for_prompt(s), query |-> query]

\* a mutant: the provider's failure is swallowed and an empty response parsed
AfterProviderError_Swallow ==
    [pc |-> "parse_llm_response", response |-> Some(<<>>)]

\* lines 49-51 and 67-69: the failure is logged and raised again, twice
AfterProviderError ==
    [pc |-> "except", response |-> None]

----------------------------------------------------------------------------
(* Inputs *)

RECURSIVE Concat(_)
Concat(ts) == IF ts = <<>> THEN <<>> ELSE Head(ts) \o Concat(Tail(ts))

\* the texts made of at most n pieces
TextsUpTo(pieces, n) ==
    {Concat(f) : f \in UNION {[1..k -> pieces] : k \in 0..n}}

\* the pieces responses are made of; "U+2003" is the em space
Pieces ==
    {SQL_MARKER, EXPLANATION_MARKER, CONFIDENCE_MARKER,
     <<" ">>, <<"\n">>, <<"x">>, <<"0", ".", "7">>, <<"5">>, <<"-">>,
     <<"S", "Q", "L">>, <<":">>, <<"n", "a", "n">>, <<"U+2003">>}

ReplyTexts == TextsUpTo(Pieces, MaxReplyPieces)

RECURSIVE SeqsNoRepeat(_, _)
\* the sequences of at most n distinct elements of S
SeqsNoRepeat(S, n) ==
    IF n = 0 THEN {<<>>}
    ELSE LET shorter == SeqsNoRepeat(S, n - 1)
         IN shorter \cup
            {Append(q, t) : <<q, t>> \in
               {p \in shorter \X S : \A i \in 1..Len(p[1]) : p[1][i] # p[2]}}

Catalogs == SeqsNoRepeat(TableNames, MaxTables)

Questions == {"How many cars have more than 200 horsepower?"}

QueryRequests ==
    {[query |-> q, model |-> m] : q \in Questions,
                                  m \in {None, Some(""), Some("gpt-3.5-turbo")}}

\* LLM_MODEL in the environment of the service: unset, or naming a model
LlmModelEnv == {None, Some("gpt-4o")}

----------------------------------------------------------------------------
(* llm_engine: POST /process-query *)

Init ==
    /\ pc = "get_database_schema"
    /\ db_url \in BOOLEAN
    /\ llm_model \in LlmModelEnv
    /\ catalog \in Catalogs
    /\ conn = "none"
    /\ cursor = "none"
    /\ tables = <<>>
    /\ schema = <<>>
    /\ db_schema = None
    /\ request \in QueryRequests
    /\ prompt = None
    /\ llm_calls = 0
    /\ response = None
    /\ result = None
    /\ raised = <<>>
    /\ status = 0
    /\ fields = None

\* db_schema.py lines 57-60, then main.py line 65 receives the value
SchemaExcept(exc) ==
    /\ raised' = Append(raised, exc)
    /\ db_schema' = Some(SchemaOnError(schema))
    /\ conn' = ConnAfterError(conn)
    /\ pc' = "generate_prompt"

\* db_schema.py lines 16-19
schema_no_url ==
    /\ pc = "get_database_schema"
    /\ ~db_url
    /\ db_schema' = Some(get_hardcoded_schema)
    /\ pc' = "generate_prompt"
    /\ UNCHANGED <<db_url, llm_model, catalog, conn, cursor, tables, schema, request, prompt,
                   llm_calls, response, result, raised, status, fields>>

\* db_schema.py lines 21-23
schema_connect ==
    /\ pc = "get_database_schema"
    /\ db_url
    /\ \/ /\ conn' = "open"
          /\ cursor' = "open"
          /\ pc' = "list_tables"
          /\ UNCHANGED <<db_schema, raised>>
       \/ /\ SchemaExcept("OperationalError")
          /\ UNCHANGED cursor
    /\ UNCHANGED <<db_url, llm_model, catalog, tables, schema, request, prompt, llm_calls,
                   response, result, status, fields>>

\* db_schema.py lines 25-32
schema_list_tables ==
    /\ pc = "list_tables"
    /\ \/ /\ tables' = catalog
          /\ schema' = <<>>
          /\ pc' = "columns"
          /\ UNCHANGED <<db_schema, raised, conn>>
       \/ /\ SchemaExcept("DatabaseError")
          /\ UNCHANGED <<tables, schema>>
    /\ UNCHANGED <<db_url, llm_model, catalog, cursor, request, prompt, llm_calls, response,
                   result, status, fields>>

\* db_schema.py lines 34-52: one turn of the loop over the tables
schema_columns ==
    /\ pc = "columns"
    /\ tables # <<>>
    /\ \/ /\ schema' = Append(schema, TableEntry(Head(tables)))
          /\ tables' = Tail(tables)
          /\ UNCHANGED <<pc, db_schema, raised, conn>>
       \/ /\ SchemaExcept("DatabaseError")
          /\ UNCHANGED <<tables, schema>>
    /\ UNCHANGED <<db_url, llm_model, catalog, cursor, request, prompt, llm_calls, response,
                   result, status, fields>>

\* db_schema.py lines 54-55
schema_close_return ==
    /\ pc = "columns"
    /\ tables = <<>>
    /\ conn' = "closed"
    /\ db_schema' = Some(schema)
    /\ pc' = "generate_prompt"
    /\ UNCHANGED <<db_url, llm_model, catalog, cursor, tables, schema, request, prompt,
                   llm_calls, response, result, raised, status, fields>>

\* llm_processor.py lines 30-33
build_prompt ==
    /\ pc = "generate_prompt"
    /\ prompt' = Some([model_name |-> ModelName(request.model, llm_model),
                       text |-> generate_prompt(request.query, Get(db_schema))])
    /\ pc' = "call_llm_api"
    /\ UNCHANGED <<db_url, llm_model, catalog, conn, cursor, tables, schema, db_schema, request,
                   llm_calls, response, result, raised, status, fields>>

\* llm_processor.py lines 37, 53-69: the model answers, or the call raises
call_llm_api ==
    /\ pc = "call_llm_api"
    /\ llm_calls' = llm_calls + 1
    /\ \/ /\ \E r \in ReplyTexts : response' = Some(r)
          /\ pc' = "parse_llm_response"
          /\ UNCHANGED raised
       \/ /\ raised' = Append(raised, "ProviderError")
          /\ pc' = AfterProviderError.pc
          /\ response' = AfterProviderError.response
    /\ UNCHANGED <<db_url, llm_model, catalog, conn, cursor, tables, schema, db_schema, request,
                   prompt, result, status, fields>>

\* llm_processor.py lines 40-48
parse_response ==
    /\ pc = "parse_llm_response"
    /\ result' = Some(parse_llm_response(Get(response)))
    /\ pc' = "return"
    /\ UNCHANGED <<db_url, llm_model, catalog, conn, cursor, tables, schema, db_schema, request,
                   prompt, llm_calls, response, raised, status, fields>>

\* main.py line 74
process_query_return ==
    /\ pc = "return"
    /\ status' = 200
    /\ pc' = "done"
    /\ UNCHANGED <<db_url, llm_model, catalog, conn, cursor, tables, schema, db_schema, request,
                   prompt, llm_calls, response, result, raised, fields>>

\* main.py lines 75-80
process_query_except ==
    /\ pc = "except"
    /\ raised' = Append(raised, "HTTPException(500)")
    /\ status' = 500
    /\ pc' = "done"
    /\ UNCHANGED <<db_url, llm_model, catalog, conn, cursor, tables, schema, db_schema, request,
                   prompt, llm_calls, response, result, fields>>

Next ==
    \/ schema_no_url
    \/ schema_connect
    \/ schema_list_tables
    \/ schema_columns
    \/ schema_close_return
    \/ build_prompt
    \/ call_llm_api
    \/ parse_response
    \/ process_query_return
    \/ process_query_except

Spec == Init /\ [][Next]_vars

----------------------------------------------------------------------------
(* The parser alone, over every response of at most MaxPieces pieces: the    *)
(* request is taken from the point where the model has answered.             *)

InitParse ==
    /\ pc = "parse_llm_response"
    /\ db_url = FALSE
    /\ llm_model = None
    /\ catalog = <<>>
    /\ conn = "none"
    /\ cursor = "none"
    /\ tables = <<>>
    /\ schema = <<>>
    /\ db_schema = Some(get_hardcoded_schema)
    /\ request = [query |-> "How many cars have more than 200 horsepower?",
                  model |-> None]
    /\ prompt = Some([model_name |-> ModelName(None, llm_model),
                      text |-> generate_prompt(request.query, get_hardcoded_schema)])
    /\ llm_calls = 1
    /\ response \in {Some(r) : r \in TextsUpTo(Pieces, MaxPieces)}
    /\ result = None
    /\ raised = <<>>
    /\ status = 0
    /\ fields = None

NextParse ==
    \/ parse_response
    \/ process_query_return

SpecParse == InitParse /\ [][NextParse]_vars

----------------------------------------------------------------------------
(* The round trip: a response written in the format the prompt asks for    *)
(* (llm_processor.py lines 85-88), from a SQL text S, an explanation E and *)
(* a confidence C, then parsed.                                            *)

DigitChar(d) ==
    CASE d = 0 -> "0" [] d = 1 -> "1" [] d = 2 -> "2" [] d = 3 -> "3" [] d = 4 -> "4"
      [] d = 5 -> "5" [] d = 6 -> "6" [] d = 7 -> "7" [] d = 8 -> "8" [] d = 9 -> "9"

\* str(h / 100) for h in 0..100: "0.0", "0.01", ..., "0.1", "0.11", ..., "1.0"
FormatHundredths(h) ==
    <<DigitChar(h \div 100), ".", DigitChar((h \div 10) % 10)>>
      \o (IF h % 10 = 0 THEN <<>> ELSE <<DigitChar(h % 10)>>)

\* the float h / 100
Hundredths(h) == IF h = 0 THEN Zero(FALSE) ELSE RoundToDouble(FALSE, <<h>>, <<100>>)

\* the float t / 10
Tenths(t) == IF t = 0 THEN Zero(FALSE) ELSE RoundToDouble(FALSE, <<t>>, <<10>>)

\* "SQL: S\nEXPLANATION: E\nCONFIDENCE: C"
FormatResponse(S, E, h) ==
    SQL_MARKER \o <<" ">> \o S \o <<"\n">> \o
    EXPLANATION_MARKER \o <<" ">> \o E \o <<"\n">> \o
    CONFIDENCE_MARKER \o <<" ">> \o FormatHundredths(h)

FieldPieces ==
    {<<" ">>, <<"x">>, <<" ", "a", " ", "b", ";", "\n">>,
     <<"S", "Q", "L">>, <<":">>}

NoMarker(s) ==
    /\ ~Contains(SQL_MARKER, s)
    /\ ~Contains(EXPLANATION_MARKER, s)
    /\ ~Contains(CONFIDENCE_MARKER, s)

\* the field bodies that embed no marker
FieldTexts == {s \in TextsUpTo(FieldPieces, MaxFieldPieces) : NoMarker(s)}

\* the confidences 0.0, 0.05, 0.1, ..., 0.95, 1.0
Confidences == [h \in {5 * k : k \in 0..20} |-> Hundredths(h)]

InitRoundTrip ==
    /\ pc = "parse_llm_response"
    /\ db_url = FALSE
    /\ llm_model = None
    /\ catalog = <<>>
    /\ conn = "none"
    /\ cursor = "none"
    /\ tables = <<>>
    /\ schema = <<>>
    /\ db_schema = Some(get_hardcoded_schema)
    /\ request = [query |-> "How many cars have more than 200 horsepower?",
                  model |-> None]
    /\ prompt = Some([model_name |-> ModelName(None, llm_model),
                      text |-> generate_prompt(request.query, get_hardcoded_schema)])
    /\ llm_calls = 1
    /\ \E S \in FieldTexts, E \in FieldTexts, h \in DOMAIN Confidences :
         /\ fields = Some([S |-> S, E |-> E, C |-> Confidences[h]])
         /\ response = Some(FormatResponse(S, E, h))
    /\ result = None
    /\ raised = <<>>
    /\ status = 0

SpecRoundTrip == InitRoundTrip /\ [][NextParse]_vars

----------------------------------------------------------------------------
(* query_runner: POST /execute-query *)

Statements ==
    {"SELECT * FROM cars LIMIT 10;",
     "SELEC * FROM cars;",
     "INSERT INTO cars (id) VALUES (NULL);",
     "UPDATE cars SET hp = 0;",
     "SELECT * FROM cars WHERE hp > %(min_hp)s;"}

ExecuteQueryRequests ==
    {[query |-> q, params |-> p] : q \in Statements,
                                   p \in {None, Some("min_hp")}}

\* lines 76-77: what cursor.execute and cursor.fetchall do with the statement:
\* "rows", or the exception raised
StatementOutcome(req) ==
    CASE req.query = "SELECT * FROM cars LIMIT 10;" -> "rows"
      [] req.query = "SELEC * FROM cars;" -> "SyntaxError"
      [] req.query = "INSERT INTO cars (id) VALUES (NULL);" -> "IntegrityError"
      \* execute succeeds, fetchall raises "no results to fetch"
      [] req.query = "UPDATE cars SET hp = 0;" -> "ProgrammingError"
      \* `request.params or {}`: the placeholder has no value to take
      [] req.query = "SELECT * FROM cars WHERE hp > %(min_hp)s;" ->
            IF IsSet(req.params) THEN "rows" ELSE "KeyError"

\* the exception classes derived from psycopg2.Error
Psycopg2Errors == {"SyntaxError", "IntegrityError", "ProgrammingError", "OperationalError"}

\* lines 80-89: the response built from n rows
ExecuteQueryResponse(n) ==
    [results |-> [i \in 1..n |-> i],
     metadata |-> [row_count |-> n, query_execution_time_ms |-> None,
                   column_names |-> <<"id", "hp">>]]

InitExec ==
    /\ pc = "execute_query"
    /\ db_url \in BOOLEAN
    /\ llm_model = None
    /\ catalog = <<"cars">>
    /\ conn = "none"
    /\ cursor = "none"
    /\ tables = <<>>
    /\ schema = <<>>
    /\ db_schema = None
    /\ request \in ExecuteQueryRequests
    /\ prompt = None
    /\ llm_calls = 0
    /\ response = None
    /\ result = None
    /\ raised = <<>>
    /\ status = 0
    /\ fields = None

\* lines 63-65: raised inside the outer try
exec_no_url ==
    /\ pc = "execute_query"
    /\ ~db_url
    /\ raised' = Append(raised, "HTTPException(500)")
    /\ pc' = "outer_except"
    /\ UNCHANGED <<db_url, llm_model, catalog, conn, cursor, tables, schema, db_schema, request,
                   prompt, llm_calls, response, result, status, fields>>

\* lines 68-69: before the inner try, so a failure skips its except and finally
exec_connect ==
    /\ pc = "execute_query"
    /\ db_url
    /\ \/ /\ conn' = "open"
          /\ cursor' = "open"
          /\ pc' = "execute"
          /\ UNCHANGED raised
       \/ /\ raised' = Append(raised, "OperationalError")
          /\ pc' = "outer_except"
          /\ UNCHANGED <<conn, cursor>>
    /\ UNCHANGED <<db_url, llm_model, catalog, tables, schema, db_schema, request, prompt,
                   llm_calls, response, result, status, fields>>

\* lines 75-93: the inner try and its except clause
exec_run ==
    /\ pc = "execute"
    /\ LET outcome == StatementOutcome(request)
       IN \/ /\ outcome = "rows"
             /\ \E n \in 0..MaxRows : result' = Some(ExecuteQueryResponse(n))
             /\ UNCHANGED raised
          \/ /\ outcome \in Psycopg2Errors
             /\ raised' = raised \o <<outcome, "HTTPException(400)">>
             /\ UNCHANGED result
          \/ /\ outcome \notin Psycopg2Errors \cup {"rows"}
             /\ raised' = Append(raised, outcome)
             /\ UNCHANGED result
    /\ pc' = "finally"
    /\ UNCHANGED <<db_url, llm_model, catalog, conn, cursor, tables, schema, db_schema, request,
                   prompt, llm_calls, response, status, fields>>

\* lines 95-97, then the return of line 89 or the exception going on to the
\* outer except clause
exec_finally ==
    /\ pc = "finally"
    /\ cursor' = "closed"
    /\ conn' = "closed"
    /\ IF raised = <<>>
       THEN status' = 200 /\ pc' = "done"
       ELSE pc' = "outer_except" /\ UNCHANGED status
    /\ UNCHANGED <<db_url, llm_model, catalog, tables, schema, db_schema, request, prompt,
                   llm_calls, response, result, raised, fields>>

\* lines 99-101: `except Exception` also catches the HTTPException raised inside
exec_outer_except ==
    /\ pc = "outer_except"
    /\ raised' = Append(raised, "HTTPException(500)")
    /\ status' = 500
    /\ pc' = "done"
    /\ UNCHANGED <<db_url, llm_model, catalog, conn, cursor, tables, schema, db_schema, request,
                   prompt, llm_calls, response, result, fields>>

NextExec ==
    \/ exec_no_url
    \/ exec_connect
    \/ exec_run
    \/ exec_finally
    \/ exec_outer_except

SpecExec == InitExec /\ [][NextExec]_vars

----------------------------------------------------------------------------
(* The segments of the response the parser slices, by position *)

\* the least index >= from where m occurs in s, 0 when there is none
FindFrom(s, m, from) ==
    LET hits == {i \in from..(Len(s) - Len(m) + 1) : SubSeq(s, i, i + Len(m) - 1) = m}
    IN IF hits = {} THEN 0 ELSE CHOOSE i \in hits : \A j \in hits : i <= j

\* line 116: the SQL segment is s[SqlStart .. SqlEnd - 1], for s holding the marker
SqlStart(s) == Find(s, SQL_MARKER) + Len(SQL_MARKER)
SqlEnd(s) ==
    IF FindFrom(s, EXPLANATION_MARKER, SqlStart(s)) = 0 THEN Len(s) + 1
    ELSE FindFrom(s, EXPLANATION_MARKER, SqlStart(s))
SqlSegment(s) == SubSeq(s, SqlStart(s), SqlEnd(s) - 1)

\* line 121: the explanation segment is s[ExplStart .. ExplEnd - 1]
ExplStart(s) == Find(s, EXPLANATION_MARKER) + Len(EXPLANATION_MARKER)
ExplEnd(s) ==
    IF FindFrom(s, CONFIDENCE_MARKER, ExplStart(s)) = 0 THEN Len(s) + 1
    ELSE FindFrom(s, CONFIDENCE_MARKER, ExplStart(s))
ExplSegment(s) == SubSeq(s, ExplStart(s), ExplEnd(s) - 1)

\* 0 <= v <= 1 for a float value v; NaN and the infinities are outside, both
\* zeros inside
InUnitInterval(v) ==
    /\ v.kind = "num"
    /\ \/ v.mant = <<>>
       \/ /\ ~v.neg
          /\ \/ Len(v.mant) + v.exp <= 0
             \/ v.mant = <<1>> /\ v.exp = 0

\* the parser has run on the response
Parsed == IsSet(response) /\ IsSet(result)

SchemaPhase == {"get_database_schema", "list_tables", "columns"}

Occurred(exc) == \E i \in 1..Len(raised) : raised[i] = exc

SchemaFailed == ~db_url \/ Occurred("OperationalError") \/ Occurred("DatabaseError")

StatementFailed ==
    Occurred("SyntaxError") \/ Occurred("IntegrityError") \/ Occurred("ProgrammingError")

----------------------------------------------------------------------------
(* Claims *)

\* C1: a response without the marker SQL: is parsed without an exception, its
\* SQL is the fixed fallback statement, and the explanation and the confidence
\* follow the EXPLANATION: and CONFIDENCE: rules on the same text.
C1_MissingSqlFallback ==
    /\ (IsSet(response) /\ ~Contains(SQL_MARKER, Get(response)) /\ pc # "parse_llm_response")
          => /\ IsSet(result)
             /\ raised = <<>>
             /\ Get(result).sql_query = FALLBACK_SQL
             /\ Get(result).explanation =
                    IF Contains(EXPLANATION_MARKER, Get(response))
                    THEN Some(Strip(ExplSegment(Get(response)))) ELSE None
             /\ Get(result).confidence =
                    IF ~Contains(CONFIDENCE_MARKER, Get(response)) THEN Tenths(0)
                    ELSE LET f == ParseFloat(Strip(AfterFirst(Get(response), CONFIDENCE_MARKER)))
                         IN IF IsSet(f) THEN Get(f) ELSE Tenths(5)

C1_Witness ==
    /\ Parsed
    /\ ~Contains(SQL_MARKER, Get(response))
    /\ Contains(EXPLANATION_MARKER, Get(response))
    /\ Contains(CONFIDENCE_MARKER, Get(response))
    /\ Get(result).sql_query = FALLBACK_SQL
    /\ Get(result).confidence = Tenths(7)

\* C2: the confidence is 0.0 when the response has no CONFIDENCE: marker and 0.5
\* when it has one but the trimmed text after the first one is no number,
\* whether or not SQL: and EXPLANATION: are present.
C2_ConfidenceDefaults ==
    Parsed =>
      /\ ~Contains(CONFIDENCE_MARKER, Get(response))
            => Get(result).confidence = Tenths(0)
      /\ (/\ Contains(CONFIDENCE_MARKER, Get(response))
          /\ ~IsSet(ParseFloat(Strip(AfterFirst(Get(response), CONFIDENCE_MARKER)))))
            => Get(result).confidence = Tenths(5)

C2_Witness ==
    /\ Parsed
    /\ Contains(CONFIDENCE_MARKER, Get(response))
    /\ Contains(SQL_MARKER, Get(response))
    /\ Strip(AfterFirst(Get(response), CONFIDENCE_MARKER)) = <<"x">>
    /\ Get(result).confidence = Tenths(5)

\* C3 as stated: parsing "SQL: S\nEXPLANATION: E\nCONFIDENCE: C", for S and E
\* without markers and C in [0,1], returns exactly (trim(S), trim(E), C).
C3_RoundTripAnyS ==
    (Parsed /\ IsSet(fields)) =>
      /\ Get(result).sql_query = Strip(Get(fields).S)
      /\ Get(result).explanation = Some(Strip(Get(fields).E))
      /\ Get(result).confidence = Get(fields).C

\* C3 amended: the round trip returns (trim(S), trim(E), C) when S is not empty
\* after trimming; for a blank S the SQL returned is the fallback statement, E
\* and C being recovered all the same.
C3_RoundTrip ==
    (Parsed /\ IsSet(fields)) =>
      /\ InUnitInterval(Get(fields).C)
      /\ Strip(Get(fields).S) # <<>> => Get(result).sql_query = Strip(Get(fields).S)
      /\ Strip(Get(fields).S) = <<>> => Get(result).sql_query = FALLBACK_SQL
      /\ Get(result).explanation = Some(Strip(Get(fields).E))
      /\ Get(result).confidence = Get(fields).C

C3_Witness ==
    /\ Parsed
    /\ IsSet(fields)
    /\ Get(fields).S = <<" ", "a", " ", "b", ";", "\n">>
    /\ Get(fields).E = <<"x">>
    /\ Get(fields).C = Tenths(9)
    /\ Get(result).sql_query = <<"a", " ", "b", ";">>
    /\ Get(result).explanation = Some(<<"x">>)

\* C4: the confidence of every parsed result, and so of every answer of
\* /process-query, lies in [0,1], whatever the response holds after CONFIDENCE:.
C4_ConfidenceInUnitInterval ==
    Parsed => InUnitInterval(Get(result).confidence)

\* C5: get_database_schema raises nothing to its caller; when DATABASE_URL is
\* unset or any step of the fetch fails it returns the hardcoded schema, the
\* same whichever step failed, and the request does not fail for that reason.
C5_SchemaFallback ==
    /\ (SchemaFailed /\ pc \notin SchemaPhase)
          => db_schema = Some(<<[name |-> "cars", columns |-> get_hardcoded_schema[1].columns]>>)
    /\ Len(get_hardcoded_schema) = 1 /\ Len(get_hardcoded_schema[1].columns) = 13
    /\ pc \notin SchemaPhase => IsSet(db_schema)
    /\ (pc = "except" \/ status = 500) => Occurred("ProviderError")
    /\ (SchemaFailed /\ pc = "done" /\ ~Occurred("ProviderError")) => status = 200

C5_Witness ==
    /\ pc = "done"
    /\ raised = <<"DatabaseError">>
    /\ Len(schema) = 1
    /\ tables # <<>>
    /\ db_schema = Some(get_hardcoded_schema)
    /\ status = 200

\* C6: no call of get_database_schema has returned with its connection open.
C6_ConnectionClosedOnReturn ==
    pc \notin SchemaPhase => conn # "open"

\* C7: a statement that fails in execution is answered with status 400; 500 is
\* answered only for a missing DATABASE_URL or a failure that is not the
\* statement's.
C7_StatementFailureIs400 ==
    pc = "done" =>
      /\ StatementFailed => status = 400
      /\ status = 500 => ~StatementFailed

\* C8: one request invokes the language-model API at most once and only after
\* the schema fetch has returned; when the invocation fails it is not
\* repeated, the parser does not run, no sql_query is returned and the
\* request ends with status 500.
C8_SingleModelCall ==
    /\ llm_calls <= 1
    /\ (llm_calls > 0 \/ pc = "call_llm_api")
          => /\ pc \notin SchemaPhase
             /\ IsSet(db_schema)
             /\ IsSet(prompt)
             /\ Get(prompt).text.schema_str = format_schema_for_prompt(Get(db_schema))
    /\ Occurred("ProviderError")
          => /\ llm_calls = 1
             /\ response = None
             /\ result = None
             /\ pc \in {"except", "done"}
             /\ status \in {0, 500}
             /\ pc = "done" => status = 500

C8_Witness ==
    /\ pc = "done"
    /\ Occurred("ProviderError")
    /\ llm_calls = 1
    /\ result = None
    /\ status = 500

\* C9 as stated: the explanation is extracted from the remainder of the text
\* after the SQL segment, so it is unset when no EXPLANATION: marker remains
\* there, and the SQL segment and the explanation segment are disjoint.
C9_ExplanationFromRemainder ==
    (Parsed /\ Contains(SQL_MARKER, Get(response))) =>
      LET rest == SubSeq(Get(response), SqlEnd(Get(response)), Len(Get(response)))
      IN /\ Get(result).explanation =
                IF Contains(EXPLANATION_MARKER, rest)
                THEN Some(Strip(BeforeFirst(AfterFirst(rest, EXPLANATION_MARKER),
                                            CONFIDENCE_MARKER)))
                ELSE None
         /\ Contains(EXPLANATION_MARKER, Get(response))
               => \/ SqlEnd(Get(response)) <= ExplStart(Get(response))
                  \/ ExplEnd(Get(response)) <= SqlStart(Get(response))

\* C9 amended: every extraction step reads the whole response. The explanation
\* is the trimmed text between the first EXPLANATION: of the whole text and the
\* next CONFIDENCE:, and is unset exactly when the text holds no EXPLANATION:
\* at all; the SQL segment and the explanation segment are disjoint when the
\* first SQL: comes before the first EXPLANATION:.
C9_ExplanationFromWholeText ==
    Parsed =>
      /\ IsSet(Get(result).explanation) <=> Contains(EXPLANATION_MARKER, Get(response))
      /\ Contains(EXPLANATION_MARKER, Get(response))
            => Get(result).explanation = Some(Strip(ExplSegment(Get(response))))
      /\ (/\ Contains(SQL_MARKER, Get(response))
          /\ Contains(EXPLANATION_MARKER, Get(response))
          /\ Find(Get(response), SQL_MARKER) < Find(Get(response), EXPLANATION_MARKER))
            => /\ SqlEnd(Get(response)) <= ExplStart(Get(response))
               /\ SqlEnd(Get(response)) = Find(Get(response), EXPLANATION_MARKER)

C9_Witness ==
    /\ Parsed
    /\ Contains(SQL_MARKER, Get(response))
    /\ Find(Get(response), EXPLANATION_MARKER) = 1
    /\ IsSet(Get(result).explanation)
    /\ Get(result).sql_query = <<"x">>
    /\ Get(result).explanation = Some(SQL_MARKER \o <<"x">>)

\* C10: the SQL returned is never empty nor whitespace only: when SQL: is
\* present and the text up to the next EXPLANATION: (or the end) is empty after
\* trimming, the fallback statement is returned, as when the marker is absent;
\* otherwise the trimmed text is returned unchanged.
C10_SqlNeverBlank ==
    Parsed =>
      /\ Get(result).sql_query # <<>>
      /\ \E i \in 1..Len(Get(result).sql_query) : Get(result).sql_query[i] \notin Whitespace
      /\ Contains(SQL_MARKER, Get(response)) =>
            Get(result).sql_query =
               IF \A i \in 1..Len(SqlSegment(Get(response))) :
                     SqlSegment(Get(response))[i] \in Whitespace
               THEN FALLBACK_SQL
               ELSE Strip(SqlSegment(Get(response)))

C10_Witness ==
    /\ Parsed
    /\ Contains(SQL_MARKER, Get(response))
    /\ Contains(EXPLANATION_MARKER, Get(response))
    /\ SqlSegment(Get(response)) = <<"\n", "U+2003">>
    /\ Get(result).sql_query = FALLBACK_SQL

====
